---- MODULE Spec2Model ----
(***************************************************************************)
(* Windows service integration of dockerd (cmd/dockerd/service_windows.go). *)
(*                                                                         *)
(* Two execution contexts are modelled:                                    *)
(*   - the initiating context: initService, then the daemon body, which    *)
(*     calls handler.started() and handler.stopped(err);                   *)
(*   - the service context: the goroutine started by initService, which    *)
(*     calls svc.Run / debug.Run, which in turn calls handler.Execute.     *)
(* They communicate over the two unbuffered channels tosvc and fromsvc; a  *)
(* send and its matching receive are one joint step.  The host is the      *)
(* environment: it queues control requests for Execute (channel r) and     *)
(* takes every status Execute sends (channel s).                           *)
(***************************************************************************)
EXTENDS Integers, Sequences, FiniteSets, TLC

\* Number of control requests the host delivers in one run.
MaxReq == 2

VARIABLES
    flags,        \* flUnregisterService, flRegisterService, flRunService
    interactive,  \* result of svc.IsAnInteractiveSession()
    service,      \* TRUE once the global `service` points to the handler
    pcMain,       \* position of the initiating context
    ret,          \* what initService returned: [returned, exit, err]
    err,          \* the variable err of initService, shared with its goroutine
    startedRet,   \* what handler.started returned: None, Nil or an error
    stopErr,      \* the argument of handler.stopped: None, Nil or an error
    pcSvc,        \* position of the service context (goroutine, Run, Execute)
    failed,       \* Execute's local variable failed
    c,            \* Execute's local variable c, the request being handled
    reported,     \* statuses Execute has sent on s, in order
    rq,           \* requests the host holds for Execute (channel r)
    consumed,     \* requests Execute has received from r, in order
    stopCalls,    \* calls of daemonCli.stop()
    reloadCalls,  \* calls of daemonCli.reloadConfig()
    reloadReturns,\* returns of daemonCli.reloadConfig()
    removeCalls,  \* calls of removePanicFile()
    execRet,      \* what Execute returned: [returned, ssec, errno]
    trace,        \* rendezvous on tosvc and fromsvc, in order
    fs,           \* the files at path and path+".old"
    panicFile,    \* the global panicFile: NilFile or [set, open]
    oldStderr,    \* the global oldStderr
    stderr,       \* the process's STD_ERROR_HANDLE
    removeStat,   \* outcome of panicFile.Stat() in removePanicFile: None, "ok", "err"
    hook,         \* the etwHook added to logrus: [installed, log]; log FALSE is h.log == nil
    entry,        \* the logrus.Entry last passed to etwHook.Fire
    event         \* what that call of Fire did and returned

vars == << flags, interactive, service, pcMain, ret, err, startedRet, stopErr,
           pcSvc, failed, c, reported, rq, consumed, stopCalls, reloadCalls,
           reloadReturns, removeCalls, execRet, trace, fs, panicFile,
           oldStderr, stderr, removeStat, hook, entry, event >>

mainVars  == << flags, interactive, service, pcMain, ret, err, startedRet, stopErr >>
hostVars  == << rq, consumed >>
cbVars    == << stopCalls, reloadCalls, reloadReturns >>
faultVars == << fs, panicFile, oldStderr, stderr, removeStat >>
logVars   == << hook, entry, event >>

None == "none"
Nil  == "nil"

\* ---------------------------------------------------------------- statuses

AcceptRunning == {"AcceptStop", "AcceptShutdown", "AcceptParamChange"}

StartPendingStatus == [State |-> "StartPending", Accepts |-> {}]
RunningStatus      == [State |-> "Running", Accepts |-> AcceptRunning]
StopPendingStatus  == [State |-> "StopPending", Accepts |-> {}]

\* The commands the host delivers: Interrogate always, and the accepted ones.
Cmds == {"Interrogate", "Stop", "Shutdown", "ParamChange"}

IsStopCmd(cmd) == cmd \in {"Stop", "Shutdown"}

Last(s) == s[Len(s)]

\* A svc.ChangeRequest as Execute receives it.
NoRequest == [Cmd |-> None, CurrentStatus |-> StartPendingStatus]

\* Return values of initService and of Execute.
NotReturned == [returned |-> FALSE, exit |-> FALSE, err |-> Nil]
Return(exit, e) == [returned |-> TRUE, exit |-> exit, err |-> e]

NotExecuted == [returned |-> FALSE, ssec |-> FALSE, errno |-> 0]

\* ---------------------------------------------------------------- files

NoFile    == [exists |-> FALSE, data |-> << >>]
EmptyFile == [exists |-> TRUE, data |-> << >>]
FileOf(d) == [exists |-> TRUE, data |-> d]

Size(f) == Len(f.data)

\* The *os.File held in panicFile: nil, an open file or a closed one.
NilFile    == [set |-> FALSE, open |-> FALSE]
OpenFile   == [set |-> TRUE, open |-> TRUE]
ClosedFile == [set |-> TRUE, open |-> FALSE]

OrigStderr == "console"
FileHandle == "panicFile"

\* Where initPanicFile can return an error.
FailPoints == {"none", "open", "stat", "create", "getstd", "setstd"}

\* The globals initPanicFile and removePanicFile work on.
Globals == [fs |-> fs, panicFile |-> panicFile, oldStderr |-> oldStderr, stderr |-> stderr]

\* os.OpenFile(path, O_CREATE|O_WRONLY|O_APPEND): creates the file if absent.
OpenCreate(f) == IF f.path.exists THEN f ELSE [f EXCEPT !.path = EmptyFile]

\* os.Rename(path, path+".old"): replaces .old; its error is not looked at.
Rename(f, ok) == IF ok THEN [f EXCEPT !.old = f.path, !.path = NoFile] ELSE f

\* os.Create(path): creates or truncates.
Create(f) == [f EXCEPT !.path = EmptyFile]

\* Mutant of initPanicFile: the standard error handle is saved and not set.
initPanicFileNoRedirect(g, failAt, renameOk) ==
    IF failAt = "open"
    THEN [g |-> [g EXCEPT !.panicFile = NilFile], err |-> "ErrOpen"]
    ELSE
      LET g1 == [g EXCEPT !.fs = OpenCreate(g.fs), !.panicFile = OpenFile]
      IN
      IF failAt = "stat" THEN [g |-> g1, err |-> "ErrStat"]
      ELSE
        LET rotate == Size(g1.fs.path) > 0
            g2 == IF rotate
                  THEN [g1 EXCEPT !.fs = Rename(g1.fs, renameOk),
                                  !.panicFile = ClosedFile]
                  ELSE g1
        IN
        IF rotate /\ failAt = "create"
        THEN [g |-> [g2 EXCEPT !.panicFile = NilFile], err |-> "ErrCreate"]
        ELSE
          LET g3 == IF rotate
                    THEN [g2 EXCEPT !.fs = Create(g2.fs), !.panicFile = OpenFile]
                    ELSE g2
          IN
          IF failAt = "getstd" THEN [g |-> g3, err |-> "ErrGetStd"]
          ELSE
            LET g4 == [g3 EXCEPT !.oldStderr = g3.stderr]
            IN
            IF failAt = "setstd" THEN [g |-> g4, err |-> "ErrSetStd"]
            ELSE [g |-> g4, err |-> Nil]

\* initPanicFile(path), with the outcome of its system calls as inputs.
initPanicFile(g, failAt, renameOk) ==
    IF failAt = "open"
    THEN [g |-> [g EXCEPT !.panicFile = NilFile], err |-> "ErrOpen"]
    ELSE
      LET g1 == [g EXCEPT !.fs = OpenCreate(g.fs), !.panicFile = OpenFile]
      IN
      IF failAt = "stat" THEN [g |-> g1, err |-> "ErrStat"]
      ELSE
        LET rotate == Size(g1.fs.path) > 0
            g2 == IF rotate
                  THEN [g1 EXCEPT !.fs = Rename(g1.fs, renameOk),
                                  !.panicFile = ClosedFile]
                  ELSE g1
        IN
        IF rotate /\ failAt = "create"
        THEN [g |-> [g2 EXCEPT !.panicFile = NilFile], err |-> "ErrCreate"]
        ELSE
          LET g3 == IF rotate
                    THEN [g2 EXCEPT !.fs = Create(g2.fs), !.panicFile = OpenFile]
                    ELSE g2
          IN
          IF failAt = "getstd" THEN [g |-> g3, err |-> "ErrGetStd"]
          ELSE
            LET g4 == [g3 EXCEPT !.oldStderr = g3.stderr]
            IN
            IF failAt = "setstd" THEN [g |-> g4, err |-> "ErrSetStd"]
            ELSE [g |-> [g4 EXCEPT !.stderr = FileHandle], err |-> Nil]

\* Mutant of removePanicFile: the size of the file is not looked at.
removePanicFileAnySize(g, statOk) ==
    IF g.panicFile.set /\ g.panicFile.open /\ statOk
    THEN [g EXCEPT !.stderr = g.oldStderr,
                   !.panicFile = ClosedFile,
                   !.fs = [g.fs EXCEPT !.path = NoFile]]
    ELSE g

\* removePanicFile(), with the outcome of panicFile.Stat() as input.
removePanicFile(g, statOk) ==
    IF g.panicFile.set /\ g.panicFile.open /\ statOk /\ Size(g.fs.path) = 0
    THEN [g EXCEPT !.stderr = g.oldStderr,
                   !.panicFile = ClosedFile,
                   !.fs = [g.fs EXCEPT !.path = NoFile]]
    ELSE g

SetGlobals(g) ==
    /\ fs' = g.fs
    /\ panicFile' = g.panicFile
    /\ oldStderr' = g.oldStderr
    /\ stderr' = g.stderr

\* ---------------------------------------------------------------- event log

eventInfo  == 1
eventWarn  == 1
eventError == 1
eventDebug == 2
eventPanic == 3
eventFatal == 4

eventExtraOffset == 10

\* The levels etwHook.Levels lists, and one the switch of Fire does not know.
KnownLevels == {"Panic", "Fatal", "Error", "Warn", "Info", "Debug"}
Levels == KnownLevels \cup {"Unknown"}

\* Lines 73-91: the eid the switch of Fire sets for a level.
EventId(level) ==
    CASE level = "Panic" -> eventPanic
      [] level = "Fatal" -> eventFatal
      [] level = "Error" -> eventError
      [] level = "Warn"  -> eventWarn
      [] level = "Info"  -> eventInfo
      [] level = "Debug" -> eventDebug

\* Mutant of EventType: warnings are reported with the error type.
EventTypeWarnAsError(level) ==
    CASE level \in {"Panic", "Fatal", "Error", "Warn"} -> "EVENTLOG_ERROR_TYPE"
      [] level \in {"Info", "Debug"}                   -> "EVENTLOG_INFORMATION_TYPE"

\* Lines 73-91: the etype the switch of Fire sets for a level.
EventType(level) ==
    CASE level \in {"Panic", "Fatal", "Error"} -> "EVENTLOG_ERROR_TYPE"
      [] level = "Warn"                        -> "EVENTLOG_WARNING_TYPE"
      [] level \in {"Info", "Debug"}           -> "EVENTLOG_INFORMATION_TYPE"

\* Strings are sequences of characters.
Digit(n) == CASE n = 0 -> "0" [] n = 1 -> "1" [] n = 2 -> "2" [] n = 3 -> "3"
              [] n = 4 -> "4" [] n = 5 -> "5" [] n = 6 -> "6" [] n = 7 -> "7"
              [] n = 8 -> "8" [] n = 9 -> "9"

RECURSIVE Format(_)
\* fmt.Fprint of a non-negative integer value (line 103).
Format(n) == IF n < 10 THEN << Digit(n) >>
             ELSE Format(n \div 10) \o << Digit(n % 10) >>

RECURSIVE WriteFields(_, _)
\* Lines 100-105: what the loop over e.Data writes to fs, the keys taken in
\* the order `order`.
WriteFields(data, order) ==
    IF order = << >> THEN << >>
    ELSE << Head(order) >> \o << "=" >> \o Format(data[Head(order)]) \o << " " >>
         \o WriteFields(data, Tail(order))

\* Mutant of Exts: the last separator is not cut off.
ExtsUntrimmed(data, order) ==
    IF Cardinality(DOMAIN data) > 0 THEN WriteFields(data, order) ELSE << >>

\* Lines 97-107: exts.
Exts(data, order) ==
    IF Cardinality(DOMAIN data) > 0
    THEN LET w == WriteFields(data, order) IN SubSeq(w, 1, Len(w) - 1)
    ELSE << >>

\* syscall.UTF16PtrFromString fails on a string that holds a NUL.
HasNul(str) == \E i \in 1..Len(str) : str[i] = "NUL"

NoEntry == [Level |-> None, Message |-> << >>, Data |-> << >>]
NoEvent == [done |-> FALSE]

\* Mutant of Fire: the identifier of a record with fields gets no offset.
FireNoOffset(log, e, order) ==
    IF e.Level \notin KnownLevels
    THEN [done |-> TRUE, err |-> "unknown level", out |-> "none"]
    ELSE
      LET exts == Exts(e.Data, order)
          eid  == EventId(e.Level)
      IN
      IF ~log
      THEN [done |-> TRUE, err |-> Nil, out |-> "stderr", eid |-> eid,
            text |-> e.Message \o << " ", "[" >> \o exts \o << "]", "\n" >>]
      ELSE IF HasNul(e.Message)
      THEN [done |-> TRUE, err |-> "EINVAL", out |-> "none"]
      ELSE IF exts # << >> /\ HasNul(exts)
      THEN [done |-> TRUE, err |-> "EINVAL", out |-> "none"]
      ELSE [done |-> TRUE, err |-> Nil, out |-> "ReportEvent",
            etype |-> EventType(e.Level), eid |-> eid,
            count |-> IF exts # << >> THEN 2 ELSE 1,
            ss |-> IF exts # << >> THEN << e.Message, exts >> ELSE << e.Message >>]

\* etwHook.Fire(e), lines 67-137, for a hook whose log is set (log) or nil;
\* `order` is the order in which range e.Data yields the keys.
Fire(log, e, order) ==
    IF e.Level \notin KnownLevels
    THEN [done |-> TRUE, err |-> "unknown level", out |-> "none"]
    ELSE
      LET exts == Exts(e.Data, order)
          eid  == EventId(e.Level)
                  + (IF Cardinality(DOMAIN e.Data) > 0 THEN eventExtraOffset ELSE 0)
      IN
      IF ~log
      THEN [done |-> TRUE, err |-> Nil, out |-> "stderr", eid |-> eid,
            text |-> e.Message \o << " ", "[" >> \o exts \o << "]", "\n" >>]
      ELSE IF HasNul(e.Message)
      THEN [done |-> TRUE, err |-> "EINVAL", out |-> "none"]
      ELSE IF exts # << >> /\ HasNul(exts)
      THEN [done |-> TRUE, err |-> "EINVAL", out |-> "none"]
      ELSE [done |-> TRUE, err |-> Nil, out |-> "ReportEvent",
            etype |-> EventType(e.Level), eid |-> eid,
            count |-> IF exts # << >> THEN 2 ELSE 1,
            ss |-> IF exts # << >> THEN << e.Message, exts >> ELSE << e.Message >>]

\* ---------------------------------------------------------------- Init

InitFiles ==
    { [path |-> p, old |-> o] :
        p \in {NoFile, EmptyFile, FileOf(<<"prior">>)},
        o \in {NoFile, FileOf(<<"older">>)} }

Init ==
    /\ flags \in [unregister : BOOLEAN, register : BOOLEAN, run : BOOLEAN]
    /\ interactive = FALSE
    /\ service = FALSE
    /\ pcMain = "L207"
    /\ ret = NotReturned
    /\ err = Nil
    /\ startedRet = None
    /\ stopErr = None
    /\ pcSvc = "none"
    /\ failed = FALSE
    /\ c = NoRequest
    /\ reported = << >>
    /\ rq = << >>
    /\ consumed = << >>
    /\ stopCalls = 0
    /\ reloadCalls = 0
    /\ reloadReturns = 0
    /\ removeCalls = 0
    /\ execRet = NotExecuted
    /\ trace = << >>
    /\ fs \in InitFiles
    /\ panicFile = NilFile
    /\ oldStderr = None
    /\ stderr = OrigStderr
    /\ removeStat = None
    /\ hook = [installed |-> FALSE, log |-> FALSE]
    /\ entry = NoEntry
    /\ event = NoEvent


\* ------------------------------------------------- channel rendezvous

\* The initiating context is blocked receiving on fromsvc (initService's
\* wait for the first signal, or the wait at the end of stopped).
MainReceiving == pcMain \in {"L255", "L276"}

\* The initiating context takes the value v that `snd` sends on fromsvc.
RecvFromsvc(v, snd) ==
    /\ MainReceiving
    /\ pcMain' = IF pcMain = "L255" THEN "L256" ELSE "stoppedRet"
    /\ err' = IF pcMain = "L255" THEN v ELSE err
    /\ trace' = Append(trace, [ch |-> "fromsvc", v |-> v, snd |-> snd,
                               rcv |-> IF pcMain = "L255" THEN "initService" ELSE "stopped"])
    /\ UNCHANGED << flags, interactive, service, ret, startedRet, stopErr >>

\* The initiating context is blocked sending on tosvc (in started or stopped).
MainSending == pcMain \in {"L269", "L275"}

\* Mutant of TosvcValue: stopped sends err == nil.
TosvcValueInverted == IF pcMain = "L269" THEN FALSE ELSE stopErr = Nil

\* The value it sends: false from started, err != nil from stopped.
TosvcValue == IF pcMain = "L269" THEN FALSE ELSE stopErr # Nil

\* Mutant of AfterSend: stopped returns without the receive of line 276.
AfterSendNoWait(pc) == IF pc = "L269" THEN "serving" ELSE "stoppedRet"

\* Where the sender goes on: started returns nil (line 270), stopped goes on
\* to receive on fromsvc (line 276).
AfterSend(pc) == IF pc = "L269" THEN "serving" ELSE "L276"

\* Execute takes the value the initiating context sends on tosvc.
SendTosvc ==
    /\ MainSending
    /\ pcMain' = AfterSend(pcMain)
    /\ startedRet' = IF pcMain = "L269" THEN Nil ELSE startedRet
    /\ failed' = TosvcValue
    /\ trace' = Append(trace, [ch |-> "tosvc", v |-> TosvcValue,
                               snd |-> IF pcMain = "L269" THEN "started" ELSE "stopped",
                               rcv |-> "Execute"])
    /\ UNCHANGED << flags, interactive, service, ret, err, stopErr >>

\* ------------------------------------------------- initService

\* Lines 207-220: the flags that end initService before service mode.
initService_Flags ==
    /\ pcMain = "L207"
    /\ \/ /\ flags.unregister /\ flags.register
          /\ ret' = Return(TRUE, "ErrFlags")
          /\ pcMain' = "exit"
       \/ /\ flags.unregister /\ ~flags.register
          /\ \E e \in {Nil, "ErrUnregister"} : ret' = Return(TRUE, e)
          /\ pcMain' = "exit"
       \/ /\ ~flags.unregister /\ flags.register
          /\ \E e \in {Nil, "ErrRegister"} : ret' = Return(TRUE, e)
          /\ pcMain' = "exit"
       \/ /\ ~flags.unregister /\ ~flags.register /\ ~flags.run
          /\ ret' = Return(FALSE, Nil)
          /\ pcMain' = "exit"
       \/ /\ ~flags.unregister /\ ~flags.register /\ flags.run
          /\ ret' = ret
          /\ pcMain' = "L222"
    /\ UNCHANGED << logVars, flags, interactive, service, err, startedRet, stopErr,
                    pcSvc, failed, c, reported, hostVars, cbVars, removeCalls,
                    execRet, trace, faultVars >>

\* Lines 222-225: svc.IsAnInteractiveSession().
initService_Interactive ==
    /\ pcMain = "L222"
    /\ \E e \in {Nil, "ErrSession"} :
         /\ err' = e
         /\ IF e # Nil
            THEN /\ ret' = Return(FALSE, e)
                 /\ pcMain' = "exit"
                 /\ interactive' = interactive
            ELSE /\ ret' = ret
                 /\ pcMain' = "L232"
                 /\ interactive' \in BOOLEAN
    /\ UNCHANGED << logVars, flags, service, startedRet, stopErr,
                    pcSvc, failed, c, reported, hostVars, cbVars, removeCalls,
                    execRet, trace, faultVars >>

\* Lines 227-238: the handler is made; the event log is opened when not interactive.
initService_OpenLog ==
    /\ pcMain = "L232"
    /\ \E e \in (IF interactive THEN {Nil} ELSE {Nil, "ErrEventlog"}) :
         /\ err' = IF interactive THEN err ELSE e
         /\ IF e # Nil
            THEN /\ ret' = Return(FALSE, e)
                 /\ pcMain' = "exit"
            ELSE /\ ret' = ret
                 /\ pcMain' = "L240"
    /\ UNCHANGED << logVars, flags, interactive, service, startedRet, stopErr,
                    pcSvc, failed, c, reported, hostVars, cbVars, removeCalls,
                    execRet, trace, faultVars >>

\* Lines 240-252: the hook is added, service = h and the goroutine is started.
initService_Go ==
    /\ pcMain = "L240"
    /\ service' = TRUE
    /\ hook' = [installed |-> TRUE, log |-> ~interactive]
    /\ pcSvc' = "run"
    /\ pcMain' = "L255"
    /\ UNCHANGED << entry, event, flags, interactive, ret, err, startedRet, stopErr,
                    failed, c, reported, hostVars, cbVars, removeCalls,
                    execRet, trace, faultVars >>

\* Mutant of initService_Return: a failed start asks the caller to exit.
initService_ReturnExit ==
    /\ pcMain = "L256"
    /\ ret' = IF err # Nil THEN Return(TRUE, err) ELSE Return(FALSE, Nil)
    /\ pcMain' = IF err # Nil THEN "exit" ELSE "daemon"
    /\ UNCHANGED << logVars, flags, interactive, service, err, startedRet, stopErr,
                    pcSvc, failed, c, reported, hostVars, cbVars, removeCalls,
                    execRet, trace, faultVars >>

\* Lines 256-259: what initService returns after the first signal.
initService_Return ==
    /\ pcMain = "L256"
    /\ ret' = IF err # Nil THEN Return(FALSE, err) ELSE Return(FALSE, Nil)
    /\ pcMain' = IF err # Nil THEN "exit" ELSE "daemon"
    /\ UNCHANGED << logVars, flags, interactive, service, err, startedRet, stopErr,
                    pcSvc, failed, c, reported, hostVars, cbVars, removeCalls,
                    execRet, trace, faultVars >>


\* ------------------------------------------------- the daemon body

\* handler.started(), lines 262-271: initPanicFile, then the send of line 269
\* (the send itself is the rendezvous SendTosvc).
started ==
    /\ pcMain = "daemon"
    /\ \E failAt \in FailPoints, renameOk \in BOOLEAN :
         LET r == initPanicFile(Globals, failAt, renameOk)
         IN  /\ SetGlobals(r.g)
             /\ pcMain' = IF r.err = Nil THEN "L269" ELSE "startedErr"
             /\ startedRet' = IF r.err = Nil THEN startedRet ELSE r.err
    /\ UNCHANGED << logVars, flags, interactive, service, ret, err, stopErr,
                    pcSvc, failed, c, reported, hostVars, cbVars, removeCalls,
                    execRet, trace, removeStat >>

\* handler.stopped(err), lines 273-275: the daemon calls it when it has shut
\* down (err nil or not), or with its error when its startup failed before
\* started() was called.  The send of line 275 is the rendezvous SendTosvc.
stopped ==
    /\ pcMain \in {"daemon", "serving"}
    /\ \E e \in (IF pcMain = "daemon" THEN {"ErrDaemon"} ELSE {Nil, "ErrDaemon"}) :
         stopErr' = e
    /\ pcMain' = "L275"
    /\ UNCHANGED << logVars, flags, interactive, service, ret, err, startedRet,
                    pcSvc, failed, c, reported, hostVars, cbVars, removeCalls,
                    execRet, trace, faultVars >>

\* ------------------------------------------------- the goroutine of initService

\* Line 248: svc.Run fails before it calls Execute.
Run_Fail ==
    /\ pcSvc = "run"
    /\ ~interactive
    /\ err' = "ErrRun"
    /\ pcSvc' = "L251"
    /\ UNCHANGED << logVars, flags, interactive, service, pcMain, ret, startedRet, stopErr,
                    failed, c, reported, hostVars, cbVars, removeCalls,
                    execRet, trace, faultVars >>

\* Lines 246/248: debug.Run or svc.Run calls h.Execute.
Run_Execute ==
    /\ pcSvc = "run"
    /\ pcSvc' = "L280"
    /\ UNCHANGED << logVars, mainVars, failed, c, reported, hostVars, cbVars, removeCalls,
                    execRet, trace, faultVars >>

\* Mutant of Run_Return: the goroutine ends without the send of line 251.
Run_ReturnNoSend ==
    /\ pcSvc = "ret"
    /\ err' = IF interactive /\ execRet.errno # 0 THEN "Errno" ELSE Nil
    /\ pcSvc' = "done"
    /\ UNCHANGED << logVars, flags, interactive, service, pcMain, ret, startedRet, stopErr,
                    failed, c, reported, hostVars, cbVars, removeCalls,
                    execRet, trace, faultVars >>

\* Lines 246/248: Run returns after Execute has; debug.Run turns a non-zero
\* errno into an error, svc.Run returns nil.
Run_Return ==
    /\ pcSvc = "ret"
    /\ err' = IF interactive /\ execRet.errno # 0 THEN "Errno" ELSE Nil
    /\ pcSvc' = "L251"
    /\ UNCHANGED << logVars, flags, interactive, service, pcMain, ret, startedRet, stopErr,
                    failed, c, reported, hostVars, cbVars, removeCalls,
                    execRet, trace, faultVars >>

\* Line 251: h.fromsvc <- err.
goroutine_Send ==
    /\ pcSvc = "L251"
    /\ RecvFromsvc(err, "goroutine")
    /\ pcSvc' = "done"
    /\ UNCHANGED << logVars, failed, c, reported, hostVars, cbVars, removeCalls,
                    execRet, faultVars >>

\* ------------------------------------------------- handler.Execute

\* Mutant of Execute_StartPending: initService is unblocked with no report made.
Execute_StartPendingOmitted ==
    /\ pcSvc = "L280"
    /\ pcSvc' = "L282"
    /\ UNCHANGED << logVars, mainVars, failed, c, reported, hostVars, cbVars, removeCalls,
                    execRet, trace, faultVars >>

\* Line 280: s <- StartPending.
Execute_StartPending ==
    /\ pcSvc = "L280"
    /\ reported' = Append(reported, StartPendingStatus)
    /\ pcSvc' = "L282"
    /\ UNCHANGED << logVars, mainVars, failed, c, hostVars, cbVars, removeCalls,
                    execRet, trace, faultVars >>

\* Line 282: h.fromsvc <- nil.
Execute_Handshake ==
    /\ pcSvc = "L282"
    /\ RecvFromsvc(Nil, "Execute")
    /\ pcSvc' = "L285"
    /\ UNCHANGED << logVars, failed, c, reported, hostVars, cbVars, removeCalls,
                    execRet, faultVars >>

\* Mutant of Execute_WaitInit: the receive gives up and counts as a failure.
Execute_WaitInitTimeout ==
    /\ pcSvc = "L285"
    /\ failed' = TRUE
    /\ pcSvc' = "L286"
    /\ UNCHANGED << logVars, mainVars, c, reported, hostVars, cbVars, removeCalls,
                    execRet, trace, faultVars >>

\* Mutant of Execute_WaitInit: Execute goes on without the receive.
Execute_WaitInitSkipped ==
    /\ pcSvc = "L285"
    /\ failed' = FALSE
    /\ pcSvc' = "L286"
    /\ UNCHANGED << logVars, mainVars, c, reported, hostVars, cbVars, removeCalls,
                    execRet, trace, faultVars >>

\* Line 285: failed := <-h.tosvc.
Execute_WaitInit ==
    /\ pcSvc = "L285"
    /\ SendTosvc
    /\ pcSvc' = "L286"
    /\ UNCHANGED << logVars, c, reported, hostVars, cbVars, removeCalls, execRet, faultVars >>

\* Mutant of Execute_Abort: the abort path goes through removePanicFile.
Execute_AbortReleases ==
    /\ pcSvc = "L286"
    /\ failed
    /\ pcSvc' = "L311"
    /\ UNCHANGED << logVars, mainVars, failed, c, reported, hostVars, cbVars, removeCalls,
                    execRet, trace, faultVars >>

\* Lines 286-289: the abort path.
Execute_Abort ==
    /\ pcSvc = "L286"
    /\ failed
    /\ execRet' = [returned |-> TRUE, ssec |-> TRUE, errno |-> 1]
    /\ pcSvc' = "ret"
    /\ UNCHANGED << logVars, mainVars, failed, c, reported, hostVars, cbVars, removeCalls,
                    trace, faultVars >>

\* Mutant of Execute_Running: the loop is entered with no Running report.
Execute_RunningOmitted ==
    /\ pcSvc = "L286"
    /\ ~failed
    /\ pcSvc' = "select"
    /\ UNCHANGED << logVars, mainVars, failed, c, reported, hostVars, cbVars, removeCalls,
                    execRet, trace, faultVars >>

\* Line 291: s <- Running.
Execute_Running ==
    /\ pcSvc = "L286"
    /\ ~failed
    /\ reported' = Append(reported, RunningStatus)
    /\ pcSvc' = "select"
    /\ UNCHANGED << logVars, mainVars, failed, c, hostVars, cbVars, removeCalls,
                    execRet, trace, faultVars >>

\* Lines 296-297: the select takes a value from tosvc and leaves the loop.
Execute_SelectTosvc ==
    /\ pcSvc = "select"
    /\ SendTosvc
    /\ pcSvc' = "L311"
    /\ UNCHANGED << logVars, c, reported, hostVars, cbVars, removeCalls, execRet, faultVars >>

\* Mutant of Dispatch: a Stop request is dropped.
DispatchDropsStop(cmd) ==
    CASE cmd = "ParamChange" -> "L301"
      [] cmd = "Interrogate" -> "L303"
      [] cmd = "Shutdown"    -> "L305"
      [] OTHER               -> "select"

\* Lines 299-307: the switch on c.Cmd.
Dispatch(cmd) ==
    CASE cmd = "ParamChange" -> "L301"
      [] cmd = "Interrogate" -> "L303"
      [] IsStopCmd(cmd)      -> "L305"
      [] OTHER               -> "select"

\* Line 298: the select takes a request from r.  The host fills in
\* CurrentStatus with the last status it was sent.
Execute_SelectRequest ==
    /\ pcSvc = "select"
    /\ rq # << >>
    /\ c' = [Cmd |-> Head(rq).Cmd, CurrentStatus |-> Last(reported)]
    /\ consumed' = Append(consumed, Head(rq))
    /\ rq' = Tail(rq)
    /\ pcSvc' = Dispatch(Head(rq).Cmd)
    /\ UNCHANGED << logVars, mainVars, failed, reported, cbVars, removeCalls,
                    execRet, trace, faultVars >>

\* Mutant of Execute_ReloadConfig: the reload is started and not waited for.
Execute_ReloadConfigAsync ==
    /\ pcSvc = "L301"
    /\ reloadCalls' = reloadCalls + 1
    /\ pcSvc' = "select"
    /\ UNCHANGED << logVars, mainVars, failed, c, reported, hostVars, stopCalls,
                    reloadReturns, removeCalls, execRet, trace, faultVars >>

\* Line 301: daemonCli.reloadConfig() is called ...
Execute_ReloadConfig ==
    /\ pcSvc = "L301"
    /\ reloadCalls' = reloadCalls + 1
    /\ pcSvc' = "inReload"
    /\ UNCHANGED << logVars, mainVars, failed, c, reported, hostVars, stopCalls,
                    reloadReturns, removeCalls, execRet, trace, faultVars >>

\* ... and returns.
Execute_ReloadReturn ==
    /\ pcSvc = "inReload"
    /\ reloadReturns' = reloadReturns + 1
    /\ pcSvc' = "select"
    /\ UNCHANGED << logVars, mainVars, failed, c, reported, hostVars, stopCalls,
                    reloadCalls, removeCalls, execRet, trace, faultVars >>

\* Mutant of Execute_Interrogate: the reply is always Running.
Execute_InterrogateRunning ==
    /\ pcSvc = "L303"
    /\ reported' = Append(reported, RunningStatus)
    /\ pcSvc' = "select"
    /\ UNCHANGED << logVars, mainVars, failed, c, hostVars, cbVars, removeCalls,
                    execRet, trace, faultVars >>

\* Line 303: s <- c.CurrentStatus.
Execute_Interrogate ==
    /\ pcSvc = "L303"
    /\ reported' = Append(reported, c.CurrentStatus)
    /\ pcSvc' = "select"
    /\ UNCHANGED << logVars, mainVars, failed, c, hostVars, cbVars, removeCalls,
                    execRet, trace, faultVars >>

\* Mutant of Execute_StopPending: the StopPending report is left out.
Execute_StopPendingOmitted ==
    /\ pcSvc = "L305"
    /\ pcSvc' = "L306"
    /\ UNCHANGED << logVars, mainVars, failed, c, reported, hostVars, cbVars, removeCalls,
                    execRet, trace, faultVars >>

\* Line 305: s <- StopPending.
Execute_StopPending ==
    /\ pcSvc = "L305"
    /\ reported' = Append(reported, StopPendingStatus)
    /\ pcSvc' = "L306"
    /\ UNCHANGED << logVars, mainVars, failed, c, hostVars, cbVars, removeCalls,
                    execRet, trace, faultVars >>

\* Mutant of Execute_Stop: the loop is left on the stop request itself.
Execute_StopExits ==
    /\ pcSvc = "L306"
    /\ stopCalls' = stopCalls + 1
    /\ pcSvc' = "L311"
    /\ UNCHANGED << logVars, mainVars, failed, c, reported, hostVars, reloadCalls,
                    reloadReturns, removeCalls, execRet, trace, faultVars >>

\* Line 306: daemonCli.stop(), a notification that does not wait.
Execute_Stop ==
    /\ pcSvc = "L306"
    /\ stopCalls' = stopCalls + 1
    /\ pcSvc' = "select"
    /\ UNCHANGED << logVars, mainVars, failed, c, reported, hostVars, reloadCalls,
                    reloadReturns, removeCalls, execRet, trace, faultVars >>

\* Line 311: removePanicFile().
Execute_RemovePanicFile ==
    /\ pcSvc = "L311"
    /\ \E statOk \in BOOLEAN :
         /\ SetGlobals(removePanicFile(Globals, statOk))
         /\ removeStat' = IF statOk THEN "ok" ELSE "err"
    /\ removeCalls' = removeCalls + 1
    /\ pcSvc' = "L312"
    /\ UNCHANGED << logVars, mainVars, failed, c, reported, hostVars, cbVars,
                    execRet, trace >>

\* Mutant of ExecuteResult: the exit code does not depend on failed.
ExecuteResultAlwaysZero(f) == [returned |-> TRUE, ssec |-> FALSE, errno |-> 0]

\* Lines 312-315: the result of a run that left the loop.
ExecuteResult(f) ==
    IF f THEN [returned |-> TRUE, ssec |-> TRUE, errno |-> 1]
         ELSE [returned |-> TRUE, ssec |-> FALSE, errno |-> 0]

Execute_Return ==
    /\ pcSvc = "L312"
    /\ execRet' = ExecuteResult(failed)
    /\ pcSvc' = "ret"
    /\ UNCHANGED << logVars, mainVars, failed, c, reported, hostVars, cbVars, removeCalls,
                    trace, faultVars >>

\* ------------------------------------------------- the environment

\* Execute has been called and has not returned.
InExecute ==
    pcSvc \in {"L280", "L282", "L285", "L286", "select", "L301", "inReload",
               "L303", "L305", "L306", "L311", "L312"}

\* The host puts a control request on r.  `early` records that it did so
\* before started() had completed.
host_Request ==
    /\ InExecute
    /\ Len(rq) + Len(consumed) < MaxReq
    /\ \E cmd \in Cmds :
         rq' = Append(rq, [Cmd |-> cmd, early |-> startedRet # Nil])
    /\ UNCHANGED << logVars, mainVars, pcSvc, failed, c, reported, consumed, cbVars,
                    removeCalls, execRet, trace, faultVars >>

\* The runtime writes a fault report to the redirected handle.
runtime_Fault ==
    /\ stderr = FileHandle
    /\ panicFile.open
    /\ fs.path = EmptyFile
    /\ pcMain # "stoppedRet"
    /\ fs' = [fs EXCEPT !.path = FileOf(<<"fault">>)]
    /\ UNCHANGED << logVars, mainVars, pcSvc, failed, c, reported, hostVars, cbVars,
                    removeCalls, execRet, trace, panicFile, oldStderr, stderr,
                    removeStat >>

\* ------------------------------------------------- specification

Next ==
    \/ initService_Flags
    \/ initService_Interactive
    \/ initService_OpenLog
    \/ initService_Go
    \/ initService_Return
    \/ started
    \/ stopped
    \/ Run_Fail
    \/ Run_Execute
    \/ Run_Return
    \/ goroutine_Send
    \/ Execute_StartPending
    \/ Execute_Handshake
    \/ Execute_WaitInit
    \/ Execute_Abort
    \/ Execute_Running
    \/ Execute_SelectTosvc
    \/ Execute_SelectRequest
    \/ Execute_ReloadConfig
    \/ Execute_ReloadReturn
    \/ Execute_Interrogate
    \/ Execute_StopPending
    \/ Execute_Stop
    \/ Execute_RemovePanicFile
    \/ Execute_Return
    \/ host_Request
    \/ runtime_Fault

Spec == Init /\ [][Next]_vars


\* The steps of the service context (the goroutine, Run and Execute).
SvcStep ==
    \/ Run_Fail \/ Run_Execute \/ Run_Return \/ goroutine_Send
    \/ Execute_StartPending \/ Execute_Handshake \/ Execute_WaitInit
    \/ Execute_Abort \/ Execute_Running \/ Execute_SelectTosvc
    \/ Execute_SelectRequest \/ Execute_ReloadConfig \/ Execute_ReloadReturn
    \/ Execute_Interrogate \/ Execute_StopPending \/ Execute_Stop
    \/ Execute_RemovePanicFile \/ Execute_Return

\* The steps of initService in the initiating context.
InitStep ==
    \/ initService_Flags \/ initService_Interactive \/ initService_OpenLog
    \/ initService_Go \/ initService_Return

\* A runnable goroutine is eventually run, and the daemon's reload callback
\* returns.  Nothing obliges the daemon to call started or stopped, the host
\* to send a request, or the runtime to report a fault.
FairSpec == Spec /\ WF_vars(SvcStep) /\ WF_vars(InitStep)

\* ------------------------------------------------- properties

\* How many elements of the sequence s satisfy the test Op.
Count(s, Op(_)) == Cardinality({i \in 1..Len(s) : Op(s[i])})

IsStopRequest(q) == IsStopCmd(q.Cmd)
IsParamChange(q) == q.Cmd = "ParamChange"
IsStopPending(st) == st.State = "StopPending"
IsRunning(st) == st.State = "Running"
ToBegin(e) == e.rcv = "initService"
OnTosvc(e) == e.ch = "tosvc"

States(s) == [i \in 1..Len(s) |-> s[i].State]

RECURSIVE ExpectedStates(_, _)
\* The states Execute reports after `acc` while it handles the requests qs.
ExpectedStates(qs, acc) ==
    IF qs = << >> THEN acc
    ELSE ExpectedStates(Tail(qs),
           IF IsStopCmd(Head(qs).Cmd) THEN Append(acc, "StopPending")
           ELSE IF Head(qs).Cmd = "Interrogate" THEN Append(acc, Last(acc))
           ELSE acc)

\* started() returned nil, then stopped(nil) was called, and Execute returned.
GracefulRunDone == execRet.returned /\ startedRet = Nil /\ stopErr = Nil

\* C1 (as stated): after begin, a successful started() and stopped(nil), the
\* statuses reported are exactly StartPending, Running, StopPending, Stopped
\* and Execute's exit code is 0.
C1_Original ==
    GracefulRunDone =>
        /\ States(reported) = << "StartPending", "Running", "StopPending", "Stopped" >>
        /\ execRet.errno = 0

\* C1 (amended): after begin, a successful started() and stopped(nil), Execute
\* has reported StartPending, Running, then one StopPending per Stop/Shutdown
\* request it consumed and the current status again per Interrogate; it never
\* reports Stopped itself, and it returns (false, 0).
C1_StatusSequence ==
    GracefulRunDone =>
        /\ States(reported) = ExpectedStates(consumed, << "StartPending", "Running" >>)
        /\ \A i \in 1..Len(reported) : reported[i].State # "Stopped"
        /\ (Count(consumed, IsStopRequest) = 0 => Count(reported, IsStopPending) = 0)
        /\ execRet.ssec = FALSE
        /\ execRet.errno = 0

C1_Witness ==
    /\ GracefulRunDone
    /\ States(reported) = << "StartPending", "Running", "StopPending" >>


\* started() returned an error; the daemon then stops without calling stopped.
StartFailed == startedRet \notin {None, Nil} /\ stopErr = None

\* C2 (as stated): when begin succeeds, started() fails and the daemon does not
\* call stopped, Execute eventually returns with exit code 1.
C2_Original == StartFailed ~> (execRet.returned /\ execRet.errno = 1)

\* C2 (amended): when begin succeeds, started() fails and the daemon does not
\* call stopped, Execute has reported StartPending only and stays blocked at
\* its first receive on tosvc without returning; Execute returns exit code 1
\* with Running never reported only after stopped(err), err non-nil, has sent
\* true on tosvc.
C2_BlockedUntilStopped ==
    /\ StartFailed =>
          /\ pcSvc = "L285"
          /\ ~execRet.returned
          /\ States(reported) = << "StartPending" >>
    /\ (execRet.returned /\ Count(reported, IsRunning) = 0) =>
          /\ execRet.errno = 1
          /\ stopErr \notin {None, Nil}
          /\ trace[2] = [ch |-> "tosvc", v |-> TRUE, snd |-> "stopped", rcv |-> "Execute"]

C2_Witness ==
    /\ StartFailed
    /\ pcSvc = "L285"
    /\ reported = << StartPendingStatus >>

\* C3: when started() fails nothing has been sent on tosvc, and as long as
\* stopped is not called Running is not reported and no control request is
\* consumed.
C3_FailedStartSendsNothing ==
    StartFailed =>
        /\ Count(trace, OnTosvc) = 0
        /\ Count(reported, IsRunning) = 0
        /\ consumed = << >>

C3_Witness ==
    /\ StartFailed
    /\ Len(rq) = MaxReq
    /\ trace = << [ch |-> "fromsvc", v |-> Nil, snd |-> "Execute", rcv |-> "initService"] >>

\* C4: after begin, a successful started(), any number of Interrogate requests
\* and stopped(err), Execute's exit code is 1 if err is non-nil and 0 if it is
\* nil, whatever requests were consumed and in whatever order.
C4_ExitCode ==
    (execRet.returned /\ startedRet = Nil) =>
        /\ stopErr # None
        /\ execRet.errno = IF stopErr # Nil THEN 1 ELSE 0

IsInterrogate(q) == q.Cmd = "Interrogate"

C4_Witness ==
    /\ execRet.returned
    /\ startedRet = Nil
    /\ stopErr = "ErrDaemon"
    /\ execRet.errno = 1
    /\ Len(consumed) = 2
    /\ Count(consumed, IsInterrogate) = 2


\* A Stop or Shutdown request delivered before started() completed.
IsEarlyStop(q) == q.early /\ IsStopCmd(q.Cmd)

\* The daemon has called stopped (its send on tosvc is offered or done).
StoppedSignalled == pcMain \in {"L275", "L276", "stoppedRet"}

\* Every Stop/Shutdown request consumed so far has had StopPending reported
\* and the daemon notified.
StopsHandled ==
    /\ stopCalls = Count(consumed, IsStopRequest)
    /\ Count(reported, IsStopPending) >= stopCalls
    /\ pcSvc \notin {"L305", "L306"}

\* C5: a Stop or Shutdown request the host delivered before started() completed
\* is not lost: once Running is reported, unless the daemon signals stopped,
\* Execute eventually consumes it, reports StopPending and notifies the daemon.
C5_EarlyStopNotLost ==
    (Count(reported, IsRunning) > 0 /\ Count(rq, IsEarlyStop) > 0)
        ~> ((Count(rq, IsEarlyStop) = 0 /\ StopsHandled) \/ StoppedSignalled)

C5_Witness ==
    /\ Count(consumed, IsEarlyStop) > 0
    /\ Count(rq, IsEarlyStop) = 0
    /\ StopsHandled
    /\ Last(reported) = StopPendingStatus
    /\ ~StoppedSignalled

\* C6: every ParamChange request consumed leads to exactly one call of
\* daemonCli.reloadConfig(), and that call has returned before Execute takes
\* the next control request or the value stopped sends.
C6_ReloadSynchronous ==
    /\ [](/\ reloadCalls = Count(consumed, IsParamChange) - (IF pcSvc = "L301" THEN 1 ELSE 0)
          /\ reloadReturns = reloadCalls - (IF pcSvc = "inReload" THEN 1 ELSE 0))
    /\ [][(consumed' # consumed \/ Count(trace', OnTosvc) > Count(trace, OnTosvc))
            => (reloadCalls = Count(consumed, IsParamChange) /\ reloadReturns = reloadCalls)]_vars

C6_Witness ==
    /\ Len(consumed) = 2
    /\ consumed[1].Cmd = "ParamChange"
    /\ reloadReturns >= 1

\* initService left by a return of line 257 or 259, or the daemon running after it.
HandshakeEntry == [ch |-> "fromsvc", v |-> Nil, snd |-> "Execute", rcv |-> "initService"]

\* C7: initService receives on fromsvc exactly once, and returns (false, nil) in
\* run-service mode only after Execute has reported StartPending and sent nil
\* on fromsvc; the daemon body (started, stopped) runs only after that report.
C7_HandshakeAfterStartPending ==
    /\ Count(trace, ToBegin) <= 1
    /\ (ret.returned /\ service) => Count(trace, ToBegin) = 1
    /\ (ret.returned /\ service /\ ret.err = Nil) =>
          /\ ret.exit = FALSE
          /\ trace[1] = HandshakeEntry
          /\ reported # << >>
          /\ reported[1] = StartPendingStatus
    /\ pcMain \in {"daemon", "L269", "startedErr", "serving", "L275", "L276", "stoppedRet"} =>
          /\ reported # << >>
          /\ reported[1] = StartPendingStatus

C7_Witness ==
    /\ pcMain = "L269"
    /\ ret = Return(FALSE, Nil)
    /\ trace = << HandshakeEntry >>
    /\ reported = << StartPendingStatus >>

\* C8 (as stated): stopped(err) does not return until Execute has left its
\* loop, released Fault Capture and returned, and the run entry point has
\* returned.
C8_Original ==
    pcMain = "stoppedRet" =>
        /\ execRet.returned
        /\ Count(reported, IsRunning) > 0
        /\ removeCalls = 1
        /\ pcSvc = "done"

\* C8 (amended): stopped(err) sends err != nil on tosvc and then does not
\* return until Execute has returned and the goroutine, after the run entry
\* point returned, has sent on fromsvc.  When started() had succeeded Execute
\* has by then left its loop and called removePanicFile once; when stopped was
\* called without a successful started(), Execute returned 1 on the abort path
\* without entering the loop or calling removePanicFile.
C8_StoppedWaitsForReturn ==
    /\ pcMain = "L276" =>
          Last(trace) = [ch |-> "tosvc", v |-> (stopErr # Nil), snd |-> "stopped", rcv |-> "Execute"]
    /\ pcMain = "stoppedRet" =>
          /\ execRet.returned
          /\ pcSvc = "done"
          /\ Last(trace).ch = "fromsvc" /\ Last(trace).snd = "goroutine"
          /\ Last(trace).rcv = "stopped"
          /\ IF startedRet = Nil
             THEN Count(reported, IsRunning) > 0 /\ removeCalls = 1
             ELSE Count(reported, IsRunning) = 0 /\ removeCalls = 0 /\ execRet.errno = 1

C8_Witness ==
    /\ pcMain = "stoppedRet"
    /\ startedRet = Nil
    /\ removeCalls = 1
    /\ execRet.returned

\* The run entry point returned before Execute's handshake.
RunFailedEarly == trace # << >> /\ trace[1].snd = "goroutine"

\* C9: if the run entry point returns an error before the handshake, initService
\* returns (false, err) with that error; in run-service mode initService never
\* returns exitRequested = true.
C9_BeginError ==
    /\ (ret.returned /\ RunFailedEarly) =>
          /\ trace[1].v # Nil
          /\ ret = Return(FALSE, trace[1].v)
    /\ (ret.returned /\ ~flags.unregister /\ ~flags.register /\ flags.run) => ~ret.exit

C9_Witness ==
    /\ ret.returned
    /\ RunFailedEarly
    /\ ret = Return(FALSE, "ErrRun")

\* C10: a started() whose initPanicFile succeeds on a file of non-zero length
\* leaves path+".old" with the prior content and a fresh empty file at path
\* that is the process's fault-output handle, with the previous handle kept in
\* oldStderr; on an empty or absent file path+".old" is left as it was.
C10_Install ==
    [][(pcMain = "daemon" /\ pcMain' = "L269") =>
          IF Size(fs.path) > 0
          THEN /\ fs'.old = fs.path
               /\ fs'.path = EmptyFile
               /\ panicFile' = OpenFile
               /\ stderr' = FileHandle
               /\ oldStderr' = stderr
          ELSE /\ fs'.old = fs.old
               /\ fs'.path = EmptyFile
               /\ stderr' = FileHandle
               /\ oldStderr' = stderr]_vars


\* The step of Execute that calls removePanicFile (line 311).
ReleaseStep == pcSvc = "L311" /\ pcSvc' = "L312"

\* C11 (as stated): removePanicFile on an empty active file restores the
\* original fault-output handle and closes and deletes the file; on a
\* non-empty active file it leaves the redirected handle and the file unchanged.
C11_Original ==
    [][ReleaseStep =>
          IF Size(fs.path) = 0
          THEN /\ stderr' = OrigStderr
               /\ panicFile' = ClosedFile
               /\ fs'.path = NoFile
          ELSE UNCHANGED << fs, panicFile, oldStderr, stderr >>]_vars

\* C11 (amended): removePanicFile restores the original fault-output handle
\* and closes and deletes the file when panicFile.Stat() succeeds and reports
\* size 0; when the file is non-empty, or Stat fails, it leaves the redirected
\* handle and the file (with its content) unchanged.  path+".old" is never
\* touched.
C11_Release ==
    [][ReleaseStep =>
          IF removeStat' = "ok" /\ Size(fs.path) = 0
          THEN /\ stderr' = OrigStderr
               /\ panicFile' = ClosedFile
               /\ fs' = [fs EXCEPT !.path = NoFile]
               /\ oldStderr' = oldStderr
          ELSE UNCHANGED << fs, panicFile, oldStderr, stderr >>]_vars

C11_Witness ==
    /\ pcSvc = "L312"
    /\ removeStat = "ok"
    /\ fs.path = NoFile
    /\ panicFile = ClosedFile
    /\ stderr = OrigStderr


\* ------------------------------------------------- the event log adapter

\* The log records fired at the hook: every level, a message that is plain,
\* empty or holds a NUL, and up to two extra fields with integer values.
Keys     == {"a", "b"}
Values   == {1, 2, 12}
Messages == { << "m" >>, << >>, << "m", "NUL" >> }

DataMaps == UNION { [K -> Values] : K \in SUBSET Keys }
Entries  == [Level : Levels, Message : Messages, Data : DataMaps]

\* The orders in which range e.Data can yield the keys of data.
Orders(data) ==
    { o \in [1..Cardinality(DOMAIN data) -> DOMAIN data] :
        \A i, j \in DOMAIN o : i # j => o[i] # o[j] }

\* logrus calls Fire on the hook added at line 240.
log_Fire ==
    /\ hook.installed
    /\ \E e \in Entries :
         \E order \in Orders(e.Data) :
            /\ entry' = e
            /\ event' = Fire(hook.log, e, order)
    /\ UNCHANGED << mainVars, pcSvc, failed, c, reported, hostVars, cbVars,
                    removeCalls, execRet, trace, faultVars, hook >>

LogNext ==
    \/ initService_Flags
    \/ initService_Interactive
    \/ initService_OpenLog
    \/ initService_Go
    \/ log_Fire

\* initService up to the start of the goroutine, and the records then logged.
LogSpec == Init /\ [][LogNext]_vars

\* Fire submitted an event for a record without extra fields.
Submitted(ev) == ev.done /\ ev.out = "ReportEvent"
PlainSubmitted(en, ev) == Submitted(ev) /\ DOMAIN en.Data = {}

\* C12 (as stated): the six severities have pairwise distinct base event
\* identifiers: two records of different severities, without extra fields,
\* are never submitted with the same identifier.
C12_Original ==
    [][(PlainSubmitted(entry, event) /\ PlainSubmitted(entry', event')
          /\ entry.Level # entry'.Level)
        => event.eid # event'.eid]_vars

\* C12 (amended): the severity table has four base identifiers: Info, Warn and
\* Error share 1, Debug is 2, Panic is 3 and Fatal is 4; together with the
\* event type (error for Panic, Fatal, Error; warning for Warn; information
\* for Info, Debug) the six severities are pairwise distinct.
C12_TypeAndIdDistinct ==
    /\ [](PlainSubmitted(entry, event) =>
            << entry.Level, event.etype, event.eid >> \in
              { << "Panic", "EVENTLOG_ERROR_TYPE", 3 >>,
                << "Fatal", "EVENTLOG_ERROR_TYPE", 4 >>,
                << "Error", "EVENTLOG_ERROR_TYPE", 1 >>,
                << "Warn",  "EVENTLOG_WARNING_TYPE", 1 >>,
                << "Info",  "EVENTLOG_INFORMATION_TYPE", 1 >>,
                << "Debug", "EVENTLOG_INFORMATION_TYPE", 2 >> })
    /\ [][(PlainSubmitted(entry, event) /\ PlainSubmitted(entry', event')
            /\ entry.Level # entry'.Level)
          => << event.etype, event.eid >> # << event'.etype, event'.eid >>]_vars

C12_Witness ==
    /\ PlainSubmitted(entry, event)
    /\ entry.Level = "Warn"
    /\ event.eid = 1
    /\ event.etype = "EVENTLOG_WARNING_TYPE"


RECURSIVE JoinFields(_, _)
\* The key=value pairs of data, in the order `order`, joined by single spaces.
JoinFields(data, order) ==
    IF order = << >> THEN << >>
    ELSE LET pair == << Head(order), "=" >> \o Format(data[Head(order)])
         IN  IF Len(order) = 1 THEN pair
             ELSE pair \o << " " >> \o JoinFields(data, Tail(order))

\* What C13 says Fire submits for the record en.
SubmitsAsClaimed(en, ev) ==
    /\ Submitted(ev)
    /\ IF DOMAIN en.Data = {}
       THEN /\ ev.eid = EventId(en.Level)
            /\ ev.count = 1
            /\ ev.ss = << en.Message >>
       ELSE /\ ev.eid = EventId(en.Level) + 10
            /\ ev.count = 2
            /\ Len(ev.ss) = 2
            /\ ev.ss[1] = en.Message
            /\ \E order \in Orders(en.Data) : ev.ss[2] = JoinFields(en.Data, order)
            /\ Last(ev.ss[2]) # " "

\* C13 (as stated): for every record of a known severity Fire submits the base
\* identifier with one string when there are no extra fields, and the base
\* identifier plus 10 with two strings when there are, the second being the
\* space-joined key=value pairs without a trailing separator.
C13_Original ==
    (event.done /\ entry.Level \in KnownLevels) => SubmitsAsClaimed(entry, event)

\* C13 (amended): the same, for every record of a known severity fired at a
\* hook that has an event log handle and whose strings have no NUL; with no
\* handle Fire writes the message and fields to stderr and submits nothing,
\* and a string with a NUL makes it return the encoding error.
C13_Submit ==
    (event.done /\ entry.Level \in KnownLevels) =>
        IF hook.log /\ ~HasNul(entry.Message)
        THEN SubmitsAsClaimed(entry, event)
        ELSE /\ ~Submitted(event)
             /\ hook.log => event.err # Nil
             /\ ~hook.log => event.err = Nil /\ event.out = "stderr"

C13_Witness ==
    /\ SubmitsAsClaimed(entry, event)
    /\ entry.Data = [k \in Keys |-> IF k = "a" THEN 1 ELSE 2]
    /\ event.ss[2] = << "a", "=", "1", " ", "b", "=", "2" >>
    /\ entry.Level = "Debug"
    /\ event.eid = 12

\* ------------------------------------------------- stop requests in the loop

\* The positions of Execute inside the loop of lines 293-309.
InLoop == pcSvc \in {"select", "L301", "inReload", "L303", "L305", "L306"}

\* Execute consumes a Stop or Shutdown request.
ConsumesStop == consumed' # consumed /\ IsStopCmd(Head(rq).Cmd)

\* C14: for every Stop or Shutdown request consumed in the loop, StopPending
\* is reported before the daemon is notified, the notification returns to the
\* select whatever the daemon is doing, and the loop is left only when a
\* value sent by stopped() arrives on tosvc.
C14_StopInLoop ==
    /\ [](pcSvc = "L306" =>
            /\ IsStopCmd(c.Cmd)
            /\ Last(reported) = StopPendingStatus
            /\ ENABLED Execute_Stop)
    /\ [][ConsumesStop => pcSvc' = "L305" /\ reported' = reported
                          /\ stopCalls' = stopCalls]_vars
    /\ [][pcSvc = "L305" =>
            /\ reported' = Append(reported, StopPendingStatus)
            /\ stopCalls' = stopCalls
            /\ pcSvc' = "L306"]_<< pcSvc, reported, stopCalls >>
    /\ [][stopCalls' # stopCalls =>
            /\ pcSvc = "L306" /\ pcSvc' = "select"
            /\ stopCalls' = stopCalls + 1
            /\ Last(reported) = StopPendingStatus
            /\ UNCHANGED << mainVars, trace >>]_vars
    /\ [][InLoop /\ ~InLoop' =>
            /\ pcSvc = "select" /\ pcSvc' = "L311"
            /\ trace' = Append(trace, [ch |-> "tosvc", v |-> stopErr # Nil,
                                        snd |-> "stopped", rcv |-> "Execute"])]_vars

\* The daemon has been notified of a stop, has not called stopped() yet, and
\* the loop is selecting again.
C14_Witness ==
    /\ stopCalls = 1
    /\ pcSvc = "select"
    /\ pcMain = "serving"
    /\ Last(reported) = StopPendingStatus

\* ------------------------------------------------- rendezvous order

\* The rendezvous of a run in which started() succeeds and stopped(stopErr)
\* is called, in order.
ExpectedTrace ==
    << HandshakeEntry,
       [ch |-> "tosvc", v |-> FALSE, snd |-> "started", rcv |-> "Execute"],
       [ch |-> "tosvc", v |-> stopErr # Nil, snd |-> "stopped", rcv |-> "Execute"],
       [ch |-> "fromsvc", v |-> IF interactive /\ stopErr # Nil THEN "Errno" ELSE Nil,
        snd |-> "goroutine", rcv |-> "stopped"] >>

\* C15: in a run where started() succeeds and stopped(err) is called, the
\* rendezvous are, in this order and each exactly once: nil on fromsvc from
\* Execute to initService, false on tosvc from started to Execute, err != nil
\* on tosvc from stopped to Execute, and the run result on fromsvc from the
\* goroutine to stopped; no other party receives any of them.
C15_RendezvousOrder ==
    startedRet = Nil =>
        /\ Len(trace) <= Len(ExpectedTrace)
        /\ \A i \in 1..Len(trace) : trace[i] = ExpectedTrace[i]
        /\ Len(trace) >= 2
        /\ pcMain = "serving" => Len(trace) = 2
        /\ pcMain = "L275" => Len(trace) = 2
        /\ pcMain = "L276" => Len(trace) = 3
        /\ pcMain = "stoppedRet" => Len(trace) = 4 /\ pcSvc = "done"

\* Such a run has ended with a failed shutdown after requests were handled.
C15_Witness ==
    /\ startedRet = Nil
    /\ pcMain = "stoppedRet"
    /\ stopErr # Nil
    /\ Len(trace) = 4
    /\ consumed # << >>

\* ------------------------------------------------- install before Running

\* Running, or a status after it, has been reported.
RunningReported == Count(reported, IsRunning) > 0

\* Execute has left the loop and removePanicFile has been called.
AfterRelease == pcSvc \in {"L312", "ret", "L251", "done"} /\ removeCalls = 1

\* C16 (as stated): in every state in which Running or a later status has
\* been reported, initPanicFile has returned nil and the standard error
\* handle is redirected to the panic file.
C16_Original ==
    RunningReported => startedRet = Nil /\ stderr = FileHandle

\* C16: initPanicFile runs once and before Running is reported: in
\* every state in which Running or a later status has been reported it has
\* returned nil, the saved handle is the original one, and the standard error
\* handle is redirected to the open panic file until removePanicFile, after
\* the loop, has restored it and deleted the file.
C16_InstalledBeforeRunning ==
    RunningReported =>
        /\ startedRet = Nil
        /\ panicFile.set
        /\ oldStderr = OrigStderr
        /\ \/ stderr = FileHandle /\ panicFile.open
           \/ /\ AfterRelease /\ removeStat = "ok"
              /\ stderr = OrigStderr /\ panicFile = ClosedFile /\ fs.path = NoFile
        /\ ~AfterRelease => stderr = FileHandle

\* Running is the last status reported, the handle is redirected and the
\* loop is selecting.
C16_Witness ==
    /\ pcSvc = "select"
    /\ Last(reported) = RunningStatus
    /\ stderr = FileHandle
    /\ panicFile.open

\* ------------------------------------------------- release on normal exit

\* C17: removePanicFile is called exactly once on the normal exit path, after
\* the loop has been left and before Execute returns, whether the shutdown
\* failed or not, and is never called on the abort path.
C17_ReleaseOnce ==
    /\ [](removeCalls <= 1)
    /\ [](InLoop \/ pcSvc = "L311" => removeCalls = 0 /\ ~execRet.returned)
    /\ [](pcSvc = "L312" => removeCalls = 1 /\ ~execRet.returned)
    /\ [](execRet.returned =>
            removeCalls = (IF RunningReported THEN 1 ELSE 0))
    /\ [](~RunningReported => removeCalls = 0)
    /\ [][removeCalls' # removeCalls =>
            /\ pcSvc = "L311" /\ pcSvc' = "L312"
            /\ Last(trace).snd = "stopped"
            /\ RunningReported]_vars
    /\ [][execRet'.returned /\ ~execRet.returned =>
            IF pcSvc = "L286"
            THEN failed /\ removeCalls = 0 /\ ~RunningReported
            ELSE pcSvc = "L312" /\ removeCalls = 1]_vars

\* Execute has returned from a failed shutdown, with removePanicFile called.
C17_Witness ==
    /\ execRet.returned
    /\ RunningReported
    /\ failed
    /\ removeCalls = 1

\* ------------------------------------------------- nothing before Running

\* C18: the loop is entered only after Running has been reported: in every
\* state in which Running has not been reported, Execute has consumed no
\* control request and has called neither daemonCli.stop nor
\* daemonCli.reloadConfig.
C18_NothingBeforeRunning ==
    ~RunningReported =>
        /\ ~InLoop
        /\ consumed = << >>
        /\ stopCalls = 0
        /\ reloadCalls = 0
        /\ reloadReturns = 0

\* A request is waiting and started() has sent false, with Running not yet
\* reported.
C18_Witness ==
    /\ pcSvc = "L286"
    /\ ~failed
    /\ rq # << >>
    /\ ~RunningReported

\* ------------------------------------------------- termination

\* stopped(err) has been called in a run in which started() succeeded.
StoppedCalled == startedRet = Nil /\ pcMain = "L275"

\* Execute has returned, the goroutine's send has been received and stopped()
\* has returned.
RunEnded == pcMain = "stoppedRet" /\ execRet.returned /\ pcSvc = "done"

\* C19: in a run where initService succeeds, started() succeeds and
\* stopped(err) is called, with any finite sequence of control requests, every
\* blocking send meets its receive: the handshake is received, the value of
\* started() is received, and once stopped(err) is called Execute returns,
\* the goroutine's last send is received and stopped() returns.
C19_Terminates ==
    /\ (pcSvc = "L282") ~> (pcSvc = "L285" /\ pcMain # "L255")
    /\ (pcMain = "L269") ~> (pcMain = "serving" /\ startedRet = Nil)
    /\ StoppedCalled ~> RunEnded

\* stopped(err) is blocked on its send while Execute waits for the reload
\* callback and a request is still queued.
C19_Witness ==
    /\ StoppedCalled
    /\ pcSvc = "inReload"
    /\ rq # << >>

\* ------------------------------------------------- no regression

\* The order of the lifecycle states.
Rank(state) ==
    CASE state = "StartPending" -> 1
      [] state = "Running"      -> 2
      [] state = "StopPending"  -> 3
      [] state = "Stopped"      -> 4

\* The statuses reported never go back in the lifecycle order.
NoRegress ==
    \A i, j \in 1..Len(reported) :
        i < j => Rank(reported[i].State) <= Rank(reported[j].State)

\* C20 (as stated): the states reported never regress along StartPending,
\* Running, StopPending, Stopped, and Running is reported at most once.
C20_Original ==
    /\ NoRegress
    /\ Count(reported, IsRunning) <= 1

\* C20: the states reported never regress along StartPending, Running,
\* StopPending, Stopped under any sequence of control requests: no Running
\* follows a StopPending, and Running is reported once by Execute itself and
\* after that only as the echo of an Interrogate consumed while Running was
\* the current status.
C20_NoRegress ==
    /\ NoRegress
    /\ Count(reported, IsRunning) <=
           (IF RunningReported THEN 1 ELSE 0) + Count(consumed, IsInterrogate)
    /\ \A i \in 1..Len(reported) :
          reported[i].State = "Running" =>
              i >= 2 /\ (i > 2 => reported[i-1].State = "Running")
    /\ \A i \in 1..Len(reported) : reported[i].State # "Stopped"

\* An Interrogate was answered after StopPending had been reported.
C20_Witness ==
    /\ pcSvc = "select"
    /\ Len(reported) >= 4
    /\ consumed # << >>
    /\ Last(consumed).Cmd = "Interrogate"
    /\ Last(reported) = StopPendingStatus


====
